---- MODULE Spec2Model ----
(***************************************************************************)
(* Model of pandas_visualstudio_demo.py: the column coercions              *)
(* (pd.to_numeric / pd.to_datetime with errors="coerce", astype(bool)),    *)
(* the range and threshold filters, duplicated / drop_duplicates, the      *)
(* .pipe() stages convert_types_and_report and filter_by_score_threshold,  *)
(* and the final cleanup (fill_name, drop_duplicates, reset_index).        *)
(*                                                                         *)
(* Cells.  A cell is a record [k, n, s]:                                   *)
(*   k = "nan"  missing (NaN / NaT)                                        *)
(*   k = "num"  a number, n = the value in tenths (25 is n = 250,          *)
(*              85.5 is n = 855)                                           *)
(*   k = "str"  text, s = its characters, one per element                  *)
(*   k = "bool" a native boolean, n = 1 for True and 0 for False           *)
(*   k = "dt"   a timestamp, n = year*10000 + month*100 + day              *)
(*                                                                         *)
(* Three specifications, one per part of the script:                       *)
(*   SpecColumn  sections 6 and 8 and the threshold filter, over one       *)
(*               column: series is the input column, result the coerced    *)
(*               column, selected the positions a mask keeps               *)
(*   SpecDup     section 7: df, the mask dup_mask computed under the key   *)
(*               columns subset, and df_no_dup                             *)
(*   SpecPipe    sections 10 to 12: stages are piped one after another     *)
(*               over the caller's table; heap holds the table objects,    *)
(*               outs the reference each completed stage returned, ix the  *)
(*               number of completed stages, diags the diagnostics         *)
(*               printed so far, df_final the table saved at the end, and  *)
(*               pandas2 whether the installed pandas infers one date      *)
(*               format per column.  The script's own run is the stage     *)
(*               sequence <<Convert, Filter85>>.                           *)
(* pc is the statement reached; "raised" means an exception propagated.    *)
(***************************************************************************)
EXTENDS Integers, Sequences, FiniteSets, TLC

VARIABLES pc, series, result, selected,
          df, subset, dup_mask, df_no_dup,
          heap, stages, ix, outs, diags, df_final, pandas2

vars == <<pc, series, result, selected, df, subset, dup_mask, df_no_dup,
          heap, stages, ix, outs, diags, df_final, pandas2>>

\* ------------------------------------------------------------------ bounds
\* Longest column / table (in rows) drawn as an input.
MaxRows == 3

\* Longest pipeline (in stages) drawn as an input.
MaxStages == 3

\* ------------------------------------------------------- program constants
\* age_filtered: 25 <= age_numeric <= 40
AgeLow == 25
AgeHigh == 40
\* filter_by_score_threshold(df_in, threshold=80)
DefaultThreshold == 80
\* filter_85 = partial(filter_by_score_threshold, threshold=85)
PartialThreshold == 85

\* ------------------------------------------------------------------- cells
NaN == [k |-> "nan", n |-> 0, s |-> <<>>]
Num(t) == [k |-> "num", n |-> t, s |-> <<>>]
Str(chars) == [k |-> "str", n |-> 0, s |-> chars]
Bool(b) == [k |-> "bool", n |-> IF b THEN 1 ELSE 0, s |-> <<>>]
Dt(ymd) == [k |-> "dt", n |-> ymd, s |-> <<>>]

\* pd.isna(x)
IsNa(c) == c.k = "nan"

\* ----------------------------------------------------------- text helpers
DigitChars == <<"0", "1", "2", "3", "4", "5", "6", "7", "8", "9">>

IsDigit(ch) == \E i \in 1..Len(DigitChars) : DigitChars[i] = ch

DigitVal(ch) == (CHOOSE i \in 1..Len(DigitChars) : DigitChars[i] = ch) - 1

IsSpace(ch) == ch \in {" ", "\t", "\n", "\r"}

RECURSIVE LStrip(_)
LStrip(t) == IF t # <<>> /\ IsSpace(Head(t)) THEN LStrip(Tail(t)) ELSE t

RECURSIVE RStrip(_)
RStrip(t) ==
  IF t # <<>> /\ IsSpace(t[Len(t)]) THEN RStrip(SubSeq(t, 1, Len(t) - 1)) ELSE t

\* str.strip()
Strip(t) == LStrip(RStrip(t))

AllDigits(t) == \A i \in 1..Len(t) : IsDigit(t[i])

RECURSIVE DigitsVal(_)
DigitsVal(t) ==
  IF t = <<>> THEN 0 ELSE DigitsVal(SubSeq(t, 1, Len(t) - 1)) * 10 + DigitVal(t[Len(t)])

\* Position of the first ch in t, 0 when there is none.
IndexOf(t, ch) ==
  IF \E i \in 1..Len(t) : t[i] = ch
  THEN CHOOSE i \in 1..Len(t) : t[i] = ch /\ \A j \in 1..(i - 1) : t[j] # ch
  ELSE 0

\* The numeric parse pd.to_numeric applies to one text cell: blanks around
\* the number are skipped, then an optional sign, digits, an optional
\* decimal point and digits; at least one digit, and nothing may follow.
\* The value is kept in tenths (digits after the first decimal are beyond
\* the resolution of the model and no input carries them).
\* The number with integer digits ip and fraction digits fp, negated if neg.
ParseParts(neg, ip, fp) ==
  IF AllDigits(ip) /\ AllDigits(fp) /\ Len(ip) + Len(fp) >= 1
  THEN [ok |-> TRUE,
        n |-> (IF neg THEN 0 - 1 ELSE 1)
              * (DigitsVal(ip) * 10 + (IF fp = <<>> THEN 0 ELSE DigitVal(fp[1])))]
  ELSE [ok |-> FALSE, n |-> 0]

\* u split at its decimal point, which is at position dot (0: none).
ParseUnsigned(neg, u, dot) ==
  ParseParts(neg,
             IF dot = 0 THEN u ELSE SubSeq(u, 1, dot - 1),
             IF dot = 0 THEN <<>> ELSE SubSeq(u, dot + 1, Len(u)))

ParseSigned(neg, u) == ParseUnsigned(neg, u, IndexOf(u, "."))

\* b with its sign taken off.
ParseStripped(b) ==
  ParseSigned(b # <<>> /\ Head(b) = "-",
              IF b # <<>> /\ Head(b) \in {"-", "+"} THEN Tail(b) ELSE b)

\* Faulty variant: blanks after the number are not skipped.
ParseNumberLeadingOnly(t) == ParseStripped(LStrip(t))

\* The number a text spells, if it spells one: [ok, n].
ParseNumber(t) == ParseStripped(Strip(t))

\* ------------------------------------------------------------ pd.to_numeric
\* One cell of pd.to_numeric(column, errors=errors).  A number stays, a
\* native boolean becomes 1 / 0, an empty text is missing, any other text is
\* parsed; a text that does not parse raises unless errors = "coerce", which
\* makes it missing.
\* The cell a parse gives: its number, or, failed, an error unless errors =
\* "coerce", which gives a missing cell.
Parsed(p, errors) ==
  IF p.ok THEN [raised |-> FALSE, val |-> Num(p.n)]
  ELSE [raised |-> errors # "coerce", val |-> NaN]

NumericCell(c, errors) ==
  CASE c.k = "num" -> [raised |-> FALSE, val |-> c]
    [] c.k = "bool" -> [raised |-> FALSE, val |-> Num(c.n * 10)]
    [] c.k = "str" ->
         IF c.s = <<>> THEN [raised |-> FALSE, val |-> NaN]
         ELSE Parsed(ParseNumber(c.s), errors)
    [] OTHER -> [raised |-> FALSE, val |-> NaN]

\* Faulty variant: errors="coerce" left out, the default "raise" applies.
to_numeric_raise(column, errors) ==
  LET r == [i \in 1..Len(column) |-> NumericCell(column[i], "raise")]
  IN  [raised |-> \E i \in 1..Len(column) : r[i].raised,
       vals |-> [i \in 1..Len(column) |-> r[i].val]]

\* pd.to_numeric(column, errors=errors): cell by cell, same length; raises
\* as soon as one cell raises.
to_numeric(column, errors) ==
  LET r == [i \in 1..Len(column) |-> NumericCell(column[i], errors)]
  IN  [raised |-> \E i \in 1..Len(column) : r[i].raised,
       vals |-> [i \in 1..Len(column) |-> r[i].val]]

\* ----------------------------------------------------------- pd.to_datetime
Field(t, a, b) == DigitsVal(SubSeq(t, a, b))

DigitsAt(t, a, b) == AllDigits(SubSeq(t, a, b))

\* A text laid out YYYY<sep>MM<sep>DD.
IsYmd(t, sep) ==
  /\ Len(t) = 10
  /\ DigitsAt(t, 1, 4) /\ t[5] = sep /\ DigitsAt(t, 6, 7) /\ t[8] = sep /\ DigitsAt(t, 9, 10)
  /\ Field(t, 6, 7) \in 1..12 /\ Field(t, 9, 10) \in 1..31

\* A text laid out NN-NN-YYYY.
IsYearLast(t) ==
  /\ Len(t) = 10
  /\ DigitsAt(t, 1, 2) /\ t[3] = "-" /\ DigitsAt(t, 4, 5) /\ t[6] = "-" /\ DigitsAt(t, 7, 10)

Ymd(y, m, d) == y * 10000 + m * 100 + d

YearLast(a, b, y) ==
  CASE a \in 1..12 /\ b \in 1..31 -> [fmt |-> "%m-%d-%Y", ymd |-> Ymd(y, a, b)]
    [] a \in 13..31 /\ b \in 1..12 -> [fmt |-> "%d-%m-%Y", ymd |-> Ymd(y, b, a)]
    [] OTHER -> [fmt |-> "none", ymd |-> 0]

\* The layout of a date text and the date it denotes under dayfirst=False:
\* YYYY-MM-DD, YYYY/MM/DD, and NN-NN-YYYY read month first unless the first
\* number cannot be a month.  fmt = "none" when the text is not a date.
DateParse(t) ==
  CASE IsYmd(t, "-") ->
         [fmt |-> "%Y-%m-%d", ymd |-> Ymd(Field(t, 1, 4), Field(t, 6, 7), Field(t, 9, 10))]
    [] IsYmd(t, "/") ->
         [fmt |-> "%Y/%m/%d", ymd |-> Ymd(Field(t, 1, 4), Field(t, 6, 7), Field(t, 9, 10))]
    [] IsYearLast(t) -> YearLast(Field(t, 1, 2), Field(t, 4, 5), Field(t, 7, 10))
    [] OTHER -> [fmt |-> "none", ymd |-> 0]

\* The format pandas >= 2 infers for the whole column: that of its first
\* text cell ("none": no single format, every cell is parsed on its own).
InferredFormat(column) ==
  IF \E i \in 1..Len(column) : column[i].k = "str"
  THEN LET i == CHOOSE i \in 1..Len(column) :
                  column[i].k = "str" /\ \A j \in 1..(i - 1) : column[j].k # "str"
       IN  DateParse(column[i].s).fmt
  ELSE "none"

\* The cell a date parse gives under the column's format fmt.
ParsedDate(p, errors, fmt) ==
  IF p.fmt # "none" /\ (fmt = "none" \/ p.fmt = fmt)
  THEN [raised |-> FALSE, val |-> Dt(p.ymd)]
  ELSE [raised |-> errors # "coerce", val |-> NaN]

\* One cell of pd.to_datetime(column, errors=errors, dayfirst=False).
\* fmt = "none": the cell is parsed on its own (pandas < 2, or no format
\* could be inferred); otherwise the cell must have the inferred format.
DatetimeCell(c, errors, fmt) ==
  CASE c.k = "dt" -> [raised |-> FALSE, val |-> c]
    [] c.k = "str" -> ParsedDate(DateParse(c.s), errors, fmt)
    [] OTHER -> [raised |-> FALSE, val |-> NaN]

\* pd.to_datetime(column, errors=errors, dayfirst=False).  infer: whether
\* the installed pandas infers one format for the column from its first
\* text (pandas >= 2) or parses every cell on its own (pandas < 2); the
\* script pins no version, so both are possible.
to_datetime(column, errors, infer) ==
  LET fmt == IF infer THEN InferredFormat(column) ELSE "none"
      r == [i \in 1..Len(column) |-> DatetimeCell(column[i], errors, fmt)]
  IN  [raised |-> \E i \in 1..Len(column) : r[i].raised,
       vals |-> [i \in 1..Len(column) |-> r[i].val]]

\* -------------------------------------------------------------- astype(bool)
\* One cell of column.astype(bool): a native boolean stays; any other
\* object is converted by its truth value, so a non-empty text is True
\* whatever it spells, NaN is True, and a number is True unless it is 0.
TruthCell(c) ==
  CASE c.k = "bool" -> c
    [] c.k = "str" -> Bool(c.s # <<>>)
    [] c.k = "num" -> Bool(c.n # 0)
    [] OTHER -> Bool(TRUE)

\* df["flag"].astype(bool).to_numpy()
astype_bool(column) == [i \in 1..Len(column) |-> TruthCell(column[i])]

\* ------------------------------------------------------------------ filters
\* Faulty variant: only a present value below v fails the comparison.
GeMissingPasses(c, v) == c.k # "num" \/ c.n >= v * 10

\* column >= v, one cell: a comparison with a missing value is False.
Ge(c, v) == c.k = "num" /\ c.n >= v * 10

\* column <= v, one cell.
Le(c, v) == c.k = "num" /\ c.n <= v * 10

\* (column >= low) & (column <= high)
RangeMask(column, low, high) ==
  [i \in 1..Len(column) |-> Ge(column[i], low) /\ Le(column[i], high)]

\* column >= threshold
ThresholdMask(column, threshold) ==
  [i \in 1..Len(column) |-> Ge(column[i], threshold)]

\* The positions a boolean mask selects, in ascending order: df[mask].
RECURSIVE SelectFrom(_, _)
SelectFrom(m, i) ==
  IF i > Len(m) THEN <<>>
  ELSE (IF m[i] THEN <<i>> ELSE <<>>) \o SelectFrom(m, i + 1)

BooleanIndex(m) == SelectFrom(m, 1)

\* ------------------------------------------------------------------ inputs
\* The texts of the example file's cells and of the documented examples.
T25 == <<"2", "5">>
TThirty == <<"t", "h", "i", "r", "t", "y">>
T22 == <<"2", "2">>
TEmpty == <<>>
TBlank == <<" ">>
TPadded40 == <<" ", "4", "0", " ">>
T855 == <<"8", "5", ".", "5">>
TFalse == <<"F", "a", "l", "s", "e">>
TTrueUpper == <<"T", "R", "U", "E">>
TIso == <<"2", "0", "2", "5", "-", "0", "1", "-", "1", "0">>
TSlash == <<"2", "0", "2", "5", "/", "0", "2", "/", "1", "5">>
TDmy == <<"1", "5", "-", "0", "3", "-", "2", "0", "2", "5">>

\* The cells a raw column is drawn from: numeric text, non-numeric text,
\* empty and blank text, padded text, decimals, date text, numbers, native
\* booleans and missing.
RawCells ==
  {Str(T25), Str(TThirty), Str(TEmpty), Str(TBlank), Str(TPadded40), Str(T855),
   Str(TFalse), Str(TIso), Str(TDmy), NaN, Num(300), Num(855), Bool(TRUE), Bool(FALSE)}

\* Columns of the documented examples, longer than MaxRows.
ExampleColumns ==
  {<<Str(T25), Str(TThirty), Str(T22), Str(TEmpty), Str(TBlank)>>,
   <<Num(100), NaN, Num(300), Num(400)>>,
   <<Str(TIso), Str(TSlash), Str(TDmy), Str(TTrueUpper)>>}

SeqsUpTo(S, n) == UNION {[1..m -> S] : m \in 1..n}

Columns == SeqsUpTo(RawCells, MaxRows) \cup ExampleColumns

\* ------------------------------------------- sections 6 and 8 of the script
\* Values of the variables a specification does not use.
IdleColumn == /\ series = <<>> /\ result = <<>> /\ selected = <<>> /\ pandas2 = FALSE
IdleDup == /\ df = <<>> /\ subset = {} /\ dup_mask = <<>> /\ df_no_dup = <<>>
IdlePipe == /\ heap = <<>> /\ stages = <<>> /\ ix = 0 /\ outs = <<>> /\ diags = <<>>
            /\ df_final = <<>>

InitColumn ==
  /\ pc = "start"
  /\ series \in Columns
  /\ result = <<>> /\ selected = <<>> /\ pandas2 = FALSE
  /\ IdleDup /\ IdlePipe

\* bool_flags = df["flag"].astype(bool).to_numpy(); df[bool_flags]
BoolFlags ==
  /\ pc = "start"
  /\ result' = astype_bool(series)
  /\ selected' = BooleanIndex([i \in 1..Len(series) |-> astype_bool(series)[i].n = 1])
  /\ pc' = "bool_flags"
  /\ UNCHANGED <<series, pandas2, df, subset, dup_mask, df_no_dup,
                 heap, stages, ix, outs, diags, df_final>>

\* df["age_numeric"] = pd.to_numeric(df["age"], errors="coerce")
AgeNumeric ==
  /\ pc = "start"
  /\ LET r == to_numeric(series, "coerce")
     IN  IF r.raised
         THEN pc' = "raised" /\ UNCHANGED result
         ELSE pc' = "age_numeric" /\ result' = r.vals
  /\ UNCHANGED <<series, selected, pandas2, df, subset, dup_mask, df_no_dup,
                 heap, stages, ix, outs, diags, df_final>>

\* age_filtered = df[(df["age_numeric"] >= 25) & (df["age_numeric"] <= 40)]
AgeFiltered ==
  /\ pc = "age_numeric"
  /\ selected' = BooleanIndex(RangeMask(result, AgeLow, AgeHigh))
  /\ pc' = "age_filtered"
  /\ UNCHANGED <<series, result, pandas2, df, subset, dup_mask, df_no_dup,
                 heap, stages, ix, outs, diags, df_final>>

\* dfw["score"] = pd.to_numeric(dfw["score"], errors="coerce");
\* dfw[dfw["score"] >= threshold], on the score column alone.
ScoreThreshold(threshold) ==
  /\ pc = "start"
  /\ LET r == to_numeric(series, "coerce")
     IN  IF r.raised
         THEN pc' = "raised" /\ UNCHANGED <<result, selected>>
         ELSE /\ pc' = IF threshold = PartialThreshold THEN "filter_85" ELSE "filter_default"
              /\ result' = r.vals
              /\ selected' = BooleanIndex(ThresholdMask(r.vals, threshold))
  /\ UNCHANGED <<series, pandas2, df, subset, dup_mask, df_no_dup,
                 heap, stages, ix, outs, diags, df_final>>

\* df["signup_dt"] = pd.to_datetime(df["signup_date"], errors="coerce", dayfirst=False)
SignupDt(infer) ==
  /\ pc = "start"
  /\ pandas2' = infer
  /\ LET r == to_datetime(series, "coerce", infer)
     IN  IF r.raised
         THEN pc' = "raised" /\ UNCHANGED result
         ELSE pc' = "signup_dt" /\ result' = r.vals
  /\ UNCHANGED <<series, selected, df, subset, dup_mask, df_no_dup,
                 heap, stages, ix, outs, diags, df_final>>

NextColumn ==
  \/ BoolFlags
  \/ AgeNumeric
  \/ AgeFiltered
  \/ \E t \in {DefaultThreshold, PartialThreshold} : ScoreThreshold(t)
  \/ \E infer \in BOOLEAN : SignupDt(infer)

SpecColumn == InitColumn /\ [][NextColumn]_vars

\* ------------------------------------------- what the claims expect, per cell
\* The numeric texts among the inputs, with the number each spells (tenths).
NumericTexts == {<<T25, 250>>, <<T22, 220>>, <<TPadded40, 400>>, <<T855, 855>>}

IsNumericText(t) == \E p \in NumericTexts : p[1] = t

\* The number a cell is expected to coerce to, NaN for none: a number is
\* itself, a numeric text is the number it spells, every other text and a
\* missing cell are missing (a native boolean counts as 1 / 0).
ExpectedNumber(c) ==
  CASE c.k = "num" -> c
    [] c.k = "bool" -> Num(c.n * 10)
    [] c.k = "str" /\ IsNumericText(c.s) ->
         Num((CHOOSE p \in NumericTexts : p[1] = c.s)[2])
    [] OTHER -> NaN

UpperChars == <<"A", "B", "C", "D", "E", "F", "G", "H", "I", "J", "K", "L", "M",
                "N", "O", "P", "Q", "R", "S", "T", "U", "V", "W", "X", "Y", "Z">>
LowerChars == <<"a", "b", "c", "d", "e", "f", "g", "h", "i", "j", "k", "l", "m",
                "n", "o", "p", "q", "r", "s", "t", "u", "v", "w", "x", "y", "z">>

LowerChar(ch) ==
  IF \E i \in 1..Len(UpperChars) : UpperChars[i] = ch
  THEN LowerChars[CHOOSE i \in 1..Len(UpperChars) : UpperChars[i] = ch]
  ELSE ch

LowerText(t) == [i \in 1..Len(t) |-> LowerChar(t[i])]

\* The boolean a cell is expected to coerce to, NaN for none.
ExpectedBoolean(c) ==
  CASE c.k = "bool" -> c
    [] c.k = "str" /\ LowerText(c.s) = <<"t", "r", "u", "e">> -> Bool(TRUE)
    [] c.k = "str" /\ LowerText(c.s) = <<"f", "a", "l", "s", "e">> -> Bool(FALSE)
    [] OTHER -> NaN

Coerced == {"bool_flags", "age_numeric", "age_filtered", "filter_85",
            "filter_default", "signup_dt"}

NumericDone == {"age_numeric", "age_filtered", "filter_85", "filter_default"}

StrictlyIncreasing(q) == \A i, j \in 1..Len(q) : i < j => q[i] < q[j]

Elements(q) == {q[i] : i \in 1..Len(q)}

\* C3: no coercion (to_numeric, to_datetime with errors="coerce",
\* astype(bool)) raises, whatever the cells are, and the coerced column has
\* exactly as many cells as the input column.
C3_CoercionTotal ==
  /\ pc # "raised"
  /\ pc \in Coerced => Len(result) = Len(series)

\* C3 witness: a date coercion has run over a column holding a text that is
\* no date, which came out missing, the column as long as before.
C3_Witness ==
  /\ pc = "signup_dt"
  /\ Len(series) = MaxRows
  /\ \E i \in 1..Len(series) : series[i] = Str(TThirty) /\ result[i] = NaN
  /\ \E i \in 1..Len(series) : series[i] = Str(TIso) /\ result[i] = Dt(20250110)

\* C4: after to_numeric, every output cell is, at the same position, the
\* number of an integer, decimal or numeric-text input cell, and missing for
\* a non-numeric, empty or blank text and for a missing cell; the column
\* ["25","thirty","22",""," "] gives [25.0, NaN, 22.0, NaN, NaN].
C4_CoerceOrNull ==
  pc \in NumericDone =>
    /\ Len(result) = Len(series)
    /\ \A i \in 1..Len(series) :
         series[i].k # "bool" => result[i] = ExpectedNumber(series[i])
    /\ series = <<Str(T25), Str(TThirty), Str(T22), Str(TEmpty), Str(TBlank)>>
         => result = <<Num(250), NaN, Num(220), NaN, NaN>>

\* C4 witness: the documented example column has been coerced.
C4_Witness ==
  /\ pc = "age_numeric"
  /\ series = <<Str(T25), Str(TThirty), Str(T22), Str(TEmpty), Str(TBlank)>>
  /\ result = <<Num(250), NaN, Num(220), NaN, NaN>>

\* C5: the range filter keeps exactly the rows whose value is present and
\* within [AgeLow, AgeHigh], the threshold filter exactly those whose value
\* is present and at least the threshold, in the original order; a row whose
\* value is missing, or was made missing by the coercion, is never kept and
\* raises nothing.
C5_FilterExcludesMissing ==
  /\ pc = "age_filtered" =>
       /\ StrictlyIncreasing(selected)
       /\ Elements(selected) =
            {i \in 1..Len(series) :
               /\ ExpectedNumber(series[i]) # NaN
               /\ AgeLow * 10 <= ExpectedNumber(series[i]).n
               /\ ExpectedNumber(series[i]).n <= AgeHigh * 10}
  /\ pc \in {"filter_85", "filter_default"} =>
       /\ StrictlyIncreasing(selected)
       /\ Elements(selected) =
            {i \in 1..Len(series) :
               /\ ExpectedNumber(series[i]) # NaN
               /\ ExpectedNumber(series[i]).n >=
                    10 * (IF pc = "filter_85" THEN PartialThreshold ELSE DefaultThreshold)}
  /\ pc # "raised"

\* C5 witness: the column [10, NaN, 30, 40] has been range-filtered and
\* rows 3 and 4 are the ones kept.
C5_Witness ==
  /\ pc = "age_filtered"
  /\ series = <<Num(100), NaN, Num(300), Num(400)>>
  /\ selected = <<3, 4>>

\* C9: the boolean coercion maps "true"/"false" text in any case and native
\* booleans to the boolean, and maps every other cell to missing, so that
\* such a cell never selects its row.
C9_BooleanCoercion ==
  pc = "bool_flags" =>
    \A i \in 1..Len(series) :
      /\ result[i] = ExpectedBoolean(series[i])
      /\ ExpectedBoolean(series[i]) = NaN => i \notin Elements(selected)

\* ------------------------------------------------------------------ tables
\* A table (DataFrame) is [columns, dtypes, rows]: the set of column names,
\* the dtype of each column, and the rows in order, each row [label, cells]
\* with its index label and one cell per column.
Table(columns, dtypes, rows) == [columns |-> columns, dtypes |-> dtypes, rows |-> rows]

IsIntegral(c) == c.k = "num" /\ c.n % 10 = 0

\* The dtype of a column of numbers: int64 when every cell is a whole
\* number, float64 as soon as one is missing or fractional.
NumericDtype(cells) ==
  IF \A i \in 1..Len(cells) : IsIntegral(cells[i]) THEN "int64" ELSE "float64"

\* The dtype read_csv gives a column.
InferDtype(cells) ==
  CASE \A i \in 1..Len(cells) : cells[i].k = "bool" -> "bool"
    [] \A i \in 1..Len(cells) : cells[i].k \in {"num", "nan"} -> NumericDtype(cells)
    [] OTHER -> "object"

\* t[mask]: the rows the mask selects, in order, labels and dtypes kept.
Take(t, m) ==
  LET at == BooleanIndex(m)
  IN  Table(t.columns, t.dtypes, [i \in 1..Len(at) |-> t.rows[at[i]]])

\* t[name] as a column.
Column(t, name) == [i \in 1..Len(t.rows) |-> t.rows[i].cells[name]]

\* t[name] = values, of the given dtype
SetColumn(t, name, values, dtype) ==
  Table(t.columns \cup {name},
        [c \in t.columns \cup {name} |-> IF c = name THEN dtype ELSE t.dtypes[c]],
        [i \in 1..Len(t.rows) |->
           [label |-> t.rows[i].label,
            cells |-> [c \in t.columns \cup {name} |->
                         IF c = name THEN values[i] ELSE t.rows[i].cells[c]]]])

\* Faulty variant: the labels are left as they are.
reset_index_keep(t) == t

\* t.reset_index(drop=True): the labels become 0 .. n-1.
reset_index(t) ==
  Table(t.columns, t.dtypes,
        [i \in 1..Len(t.rows) |-> [label |-> i - 1, cells |-> t.rows[i].cells]])

\* The table read_csv builds from the rows of a file: labels 0 .. n-1.
read_csv(columns, q) ==
  Table(columns,
        [c \in columns |-> InferDtype([i \in 1..Len(q) |-> q[i][c]])],
        [i \in 1..Len(q) |-> [label |-> i - 1, cells |-> q[i]]])

\* ----------------------------------------------- duplicated, drop_duplicates
\* Faulty variant: a missing cell equals no other cell, as under ==.
FactorizeNaNDistinct(c, i) == IF IsNa(c) THEN [k |-> "nan", n |-> i, s |-> <<>>] ELSE c

\* The code duplicated() gives the cell of row i before comparing keys: equal
\* values share a code, and all missing cells of a column share one code.
Factorize(c, i) == c

\* The key of row i under the key columns.
KeyOf(t, i, key) == [c \in key |-> Factorize(t.rows[i].cells[c], i)]

\* Faulty variant: the last occurrence is the one left unmarked.
duplicated_keep_last(t, key, keep) ==
  [i \in 1..Len(t.rows) |->
     \E j \in (i + 1)..Len(t.rows) : KeyOf(t, j, key) = KeyOf(t, i, key)]

\* t.duplicated(subset=key, keep=keep): one pass over the rows in order.
\* keep = "first" marks a row whose key was seen on an earlier row, keep =
\* "last" one whose key comes again on a later row, keep = "False" every row
\* whose key occurs more than once.
duplicated(t, key, keep) ==
  LET n == Len(t.rows)
      before(i) == {KeyOf(t, j, key) : j \in 1..(i - 1)}
      after(i) == {KeyOf(t, j, key) : j \in (i + 1)..n}
  IN  [i \in 1..n |->
         CASE keep = "first" -> KeyOf(t, i, key) \in before(i)
           [] keep = "last" -> KeyOf(t, i, key) \in after(i)
           [] OTHER -> KeyOf(t, i, key) \in before(i) \cup after(i)]

\* t.drop_duplicates(subset=key, keep=keep): t[~t.duplicated(key, keep)]
drop_duplicates(t, key, keep) ==
  LET m == duplicated(t, key, keep)
  IN  Take(t, [i \in 1..Len(t.rows) |-> ~m[i]])

\* --------------------------------------------------- section 7 of the script
IdCells == {Num(10), Num(20)}
NameA == <<"A">>
NameB == <<"B">>
NameCells == {Str(NameA), Str(NameB), NaN}
ScoreCells == {Num(880), NaN}

DupColumns == {"id", "name", "score"}

DupRows ==
  {[c \in DupColumns |-> IF c = "id" THEN i ELSE IF c = "name" THEN nm ELSE sc] :
     i \in IdCells, nm \in NameCells, sc \in ScoreCells}

DupTables == {read_csv(DupColumns, q) : q \in SeqsUpTo(DupRows, MaxRows)}

InitDup ==
  /\ pc = "start"
  /\ df \in DupTables
  /\ subset = {} /\ dup_mask = <<>> /\ df_no_dup = <<>>
  /\ IdleColumn /\ IdlePipe

\* df.duplicated(keep=False): the key is the whole row.
DuplicatedAll ==
  /\ pc = "start"
  /\ subset' = df.columns
  /\ dup_mask' = duplicated(df, df.columns, "False")
  /\ pc' = "duplicated"
  /\ UNCHANGED <<series, result, selected, pandas2, df, df_no_dup,
                 heap, stages, ix, outs, diags, df_final>>

\* df_no_dup = df.drop_duplicates(subset=["id","name"], keep="first")
\*                .reset_index(drop=True)
\* dup_mask keeps the mask drop_duplicates computes on the way.
DropDuplicates ==
  /\ pc \in {"start", "duplicated"}
  /\ subset' = {"id", "name"}
  /\ dup_mask' = duplicated(df, {"id", "name"}, "first")
  /\ df_no_dup' = reset_index(drop_duplicates(df, {"id", "name"}, "first"))
  /\ pc' = "drop_duplicates"
  /\ UNCHANGED <<series, result, selected, pandas2, df,
                 heap, stages, ix, outs, diags, df_final>>

NextDup ==
  \/ DuplicatedAll
  \/ DropDuplicates

SpecDup == InitDup /\ [][NextDup]_vars

\* Two cells match for duplicate detection: both missing, or both present
\* and equal.
Matches(a, b) == (IsNa(a) /\ IsNa(b)) \/ (~IsNa(a) /\ ~IsNa(b) /\ a = b)

\* Rows i and j of df carry the same key.
SameKey(i, j, key) == \A c \in key : Matches(df.rows[i].cells[c], df.rows[j].cells[c])

Rows == 1..Len(df.rows)

\* The name keys of df, row by row.
NameKeys == [i \in Rows |-> df.rows[i].cells["name"]]

SameIdAndScore ==
  \A i, j \in Rows : /\ df.rows[i].cells["id"] = df.rows[j].cells["id"]
                     /\ df.rows[i].cells["score"] = df.rows[j].cells["score"]

KeysAAB == NameKeys = <<Str(NameA), Str(NameA), Str(NameB)>> /\ SameIdAndScore

\* C6: keep=First marks every occurrence of a key except its first one;
\* keep=None (keep=False) marks every row whose key is shared with at least
\* one other row, the first occurrence included.  Keys [A, A, B] give
\* [false, true, false] and [true, true, false].
C6_KeepPolicies ==
  /\ pc = "drop_duplicates" =>
       /\ Len(dup_mask) = Len(df.rows)
       /\ \A i \in Rows :
            dup_mask[i] <=> \E j \in 1..(i - 1) : SameKey(j, i, {"id", "name"})
       /\ KeysAAB => dup_mask = <<FALSE, TRUE, FALSE>>
  /\ pc = "duplicated" =>
       /\ Len(dup_mask) = Len(df.rows)
       /\ \A i \in Rows :
            dup_mask[i] <=> \E j \in Rows \ {i} : SameKey(j, i, df.columns)
       /\ KeysAAB => dup_mask = <<TRUE, TRUE, FALSE>>

\* C6 witness: keys [A, A, B] have been marked [true, true, false] under
\* keep=False.
C6_Witness ==
  /\ pc = "duplicated"
  /\ KeysAAB
  /\ dup_mask = <<TRUE, TRUE, FALSE>>

\* C7: two rows are duplicates of each other exactly when every key column
\* matches, two missing cells of the same key column counting as a match: a
\* later row is marked exactly when an earlier one matches it, and of two
\* matching rows only the first is left by drop_duplicates.
C7_MissingEqualsMissing ==
  pc = "drop_duplicates" =>
    /\ \A i, j \in Rows :
         (i < j /\ SameKey(i, j, {"id", "name"})) => dup_mask[j]
    /\ \A j \in Rows :
         dup_mask[j] => \E i \in 1..(j - 1) : SameKey(i, j, {"id", "name"})
    /\ Len(df_no_dup.rows) = Cardinality({j \in Rows : ~dup_mask[j]})
    /\ \A a, b \in 1..Len(df_no_dup.rows) :
         a # b => ~(\A c \in {"id", "name"} :
                      Matches(df_no_dup.rows[a].cells[c], df_no_dup.rows[b].cells[c]))

\* C7 witness: two rows with the same id and both names missing went in,
\* the second was marked, and one row with a missing name came out.
C7_Witness ==
  /\ pc = "drop_duplicates"
  /\ Len(df.rows) = 2
  /\ IsNa(df.rows[1].cells["name"]) /\ IsNa(df.rows[2].cells["name"])
  /\ df.rows[1].cells["id"] = df.rows[2].cells["id"]
  /\ dup_mask = <<FALSE, TRUE>>
  /\ Len(df_no_dup.rows) = 1

\* ---------------------------------------------------------------- fill_name
TUnknown == <<"U", "n", "k", "n", "o", "w", "n">>

\* fill_name(x): "Unknown" for a missing cell and for a text that is empty
\* once stripped (str(x) of a number or a boolean is never blank), else x.
fill_name(x) ==
  IF IsNa(x) \/ (x.k = "str" /\ Strip(x.s) = <<>>) THEN Str(TUnknown) ELSE x

\* column.apply(f)
apply_fill_name(column) == [i \in 1..Len(column) |-> fill_name(column[i])]

\* ----------------------------------------------------- the objects in memory
\* heap[r] is the table object that reference r names; a Python variable
\* holds a reference, and two variables may hold the same one.
\* Faulty variant: no copy is made, the working name aliases the argument.
copy_alias(h, r) == [heap |-> h, ref |-> r]

\* dframe.copy(): a new object with the contents of the old one.
copy(h, r) == [heap |-> Append(h, h[r]), ref |-> Len(h) + 1]

\* The dtype of d[name] once assigned: datetime64[ns] for a date column; for
\* a numeric one, the dtype it had if that was numeric, else that of the
\* parsed numbers.
AssignedDtype(old, vals, kind) ==
  CASE kind = "datetime" -> "datetime64[ns]"
    [] old \in {"int64", "float64", "bool"} -> old
    [] OTHER -> NumericDtype(vals)

\* d[name] = r, r the outcome [raised, vals] of a conversion of d[name]: the
\* column is replaced in place unless the conversion raised.
AssignResult(h, d, name, r, kind) ==
  IF r.raised THEN [raised |-> TRUE, heap |-> h]
  ELSE [raised |-> FALSE,
        heap |-> [h EXCEPT ![d] = SetColumn(h[d], name, r.vals,
                                            AssignedDtype(h[d].dtypes[name], r.vals, kind))]]

\* d[name] = pd.to_numeric(d[name], errors="coerce"): KeyError when the
\* object has no such column.
AssignNumeric(h, d, name) ==
  IF name \notin h[d].columns THEN [raised |-> TRUE, heap |-> h]
  ELSE AssignResult(h, d, name, to_numeric(Column(h[d], name), "coerce"), "numeric")

\* d[name] = pd.to_datetime(d[name], errors="coerce", dayfirst=False)
AssignDatetime(h, d, name, infer) ==
  IF name \notin h[d].columns THEN [raised |-> TRUE, heap |-> h]
  ELSE AssignResult(h, d, name, to_datetime(Column(h[d], name), "coerce", infer), "datetime")

\* print(d.dtypes); print(d.isnull().sum()): the dtype and the number of
\* missing cells of every column of t.
Diagnostics(t) ==
  [dtypes |-> t.dtypes,
   nulls |-> [c \in t.columns |->
                Cardinality({i \in 1..Len(t.rows) : IsNa(t.rows[i].cells[c])})]]

\* Faulty variant: the diagnostics are those of the argument, not of d.
ReportOfInput(h, d, dframe) == Diagnostics(h[dframe])

\* What convert_types_and_report prints, once its conversions are done: the
\* diagnostics of its working copy d.
Report(h, d, dframe) == Diagnostics(h[d])

\* d["signup_date"] = ..., unless d["score"] = ... (outcome b) raised.
AfterScore(b, d, infer) ==
  IF b.raised THEN b ELSE AssignDatetime(b.heap, d, "signup_date", infer)

\* d["score"] = ... and what follows, unless d["age"] = ... (outcome a) raised.
AfterAge(a, d, infer) ==
  IF a.raised THEN a ELSE AfterScore(AssignNumeric(a.heap, d, "score"), d, infer)

\* The three assignments of convert_types_and_report on its working copy d,
\* in order; the first KeyError ends them.
Conversions(h, d, infer) == AfterAge(AssignNumeric(h, d, "age"), d, infer)

\* Faulty variant: the diagnostics are printed before the conversions.
ConvertedPrintsFirst(e, d, dframe, h) ==
  [raised |-> e.raised, heap |-> e.heap, ref |-> d, printed |-> <<Diagnostics(h[dframe])>>]

\* The outcome of convert_types_and_report, e the outcome of its conversions
\* on d: the diagnostics are printed once the conversions are done, and d is
\* returned.
Converted(e, d, dframe, h) ==
  [raised |-> e.raised, heap |-> e.heap, ref |-> d,
   printed |-> IF e.raised THEN <<>> ELSE <<Report(e.heap, d, dframe)>>]

ConvertCopy(c, dframe, infer, h) ==
  Converted(Conversions(c.heap, c.ref, infer), c.ref, dframe, h)

\* convert_types_and_report(dframe): returns [raised, heap, ref, printed],
\* the reference of the table returned and the diagnostics printed.
convert_types_and_report(h, dframe, infer) == ConvertCopy(copy(h, dframe), dframe, infer, h)

\* return dfw[dfw["score"] >= threshold]: a new table.
Filtered(h, dfw, threshold) ==
  [raised |-> FALSE,
   heap |-> Append(h, Take(h[dfw], ThresholdMask(Column(h[dfw], "score"), threshold))),
   ref |-> Len(h) + 1,
   printed |-> <<>>]

FilterAssigned(a, dfw, threshold) ==
  IF a.raised THEN [raised |-> TRUE, heap |-> a.heap, ref |-> dfw, printed |-> <<>>]
  ELSE Filtered(a.heap, dfw, threshold)

FilterCopy(c, threshold) ==
  FilterAssigned(AssignNumeric(c.heap, c.ref, "score"), c.ref, threshold)

\* filter_by_score_threshold(df_in, threshold): the rows of the coerced copy
\* whose score is at least the threshold, as a new table; nothing is printed.
filter_by_score_threshold(h, df_in, threshold) == FilterCopy(copy(h, df_in), threshold)

\* ------------------------------------------ sections 10 to 12 of the script
Convert == [fn |-> "convert_types_and_report", threshold |-> 0]
Filter85 == [fn |-> "filter_by_score_threshold", threshold |-> PartialThreshold]

\* The stages a pipeline is built from: the two the script pipes.
StageKinds == {Convert, Filter85}

PipeColumns == {"id", "name", "age", "signup_date", "score", "flag"}

Row(id, name, age, signup_date, score, flag) ==
  [c \in PipeColumns |->
     CASE c = "id" -> id
       [] c = "name" -> name
       [] c = "age" -> age
       [] c = "signup_date" -> signup_date
       [] c = "score" -> score
       [] OTHER -> flag]

\* Rows after those of the example file: a clean one, one that repeats its
\* (id, name) with an unparsable age and no score, one with a missing name
\* and text in the numeric columns, one with a blank name and no age.
PipeRows ==
  {Row(Num(10), Str(NameA), Str(T25), Str(TIso), Num(855), Bool(TRUE)),
   Row(Num(10), Str(NameA), Str(TThirty), Str(TSlash), NaN, Bool(FALSE)),
   Row(Num(20), NaN, Str(TPadded40), Str(TDmy), Str(T855), Bool(TRUE)),
   Row(Num(20), Str(TBlank), NaN, Str(TEmpty), Num(900), Bool(TRUE))}

\* t without the column name.
DropColumn(t, name) ==
  Table(t.columns \ {name},
        [c \in t.columns \ {name} |-> t.dtypes[c]],
        [i \in 1..Len(t.rows) |->
           [label |-> t.rows[i].label,
            cells |-> [c \in t.columns \ {name} |-> t.rows[i].cells[c]]]])

\* The tables a pipeline is run over: every column present, or one of the
\* columns the stages read absent.
PipeTables ==
  LET full == {read_csv(PipeColumns, q) : q \in SeqsUpTo(PipeRows, MaxRows)}
  IN  full \cup {DropColumn(t, c) : t \in full, c \in {"age", "score", "signup_date"}}

\* df is the caller's table as it was before the run; heap[1] is the object
\* the caller's variable names.
InitPipe ==
  /\ pc = "run"
  /\ df \in PipeTables
  /\ heap = <<df>>
  /\ stages \in SeqsUpTo(StageKinds, MaxStages)
  /\ pandas2 \in BOOLEAN
  /\ ix = 0 /\ outs = <<>> /\ diags = <<>> /\ df_final = <<>>
  /\ series = <<>> /\ result = <<>> /\ selected = <<>>
  /\ subset = {} /\ dup_mask = <<>> /\ df_no_dup = <<>>

\* The table the next stage is handed: the caller's, then each stage's result.
Current == IF ix = 0 THEN 1 ELSE outs[ix]

\* current.pipe(stage): the stage is called with the current table.  What it
\* printed stays printed; a KeyError propagates and ends the run.
Pipe(r) ==
  /\ heap' = r.heap
  /\ diags' = diags \o r.printed
  /\ IF r.raised
     THEN pc' = "raised" /\ UNCHANGED <<ix, outs>>
     ELSE pc' = "run" /\ ix' = ix + 1 /\ outs' = Append(outs, r.ref)
  /\ UNCHANGED <<series, result, selected, pandas2, df, subset, dup_mask, df_no_dup,
                 stages, df_final>>

\* t["name"] = t["name"].apply(fill_name)
FillNames(t) == SetColumn(t, "name", apply_fill_name(Column(t, "name")), "object")

\* df.pipe(convert_types_and_report)
PipeConvert ==
  /\ pc = "run" /\ ix < Len(stages)
  /\ stages[ix + 1].fn = "convert_types_and_report"
  /\ Pipe(convert_types_and_report(heap, Current, pandas2))

\* df_pipeline.pipe(partial(filter_by_score_threshold, threshold=...))
PipeFilter ==
  /\ pc = "run" /\ ix < Len(stages)
  /\ stages[ix + 1].fn = "filter_by_score_threshold"
  /\ Pipe(filter_by_score_threshold(heap, Current, stages[ix + 1].threshold))

\* df_final = df_pipeline.copy()
\* df_final["name"] = df_final["name"].apply(fill_name)
\* df_final = df_final.drop_duplicates(subset=["id","name"], keep="first")
\*                    .reset_index(drop=True)
FinalCleanup ==
  /\ pc = "run" /\ ix = Len(stages)
  /\ \E c \in {copy(heap, Current)} :
       \E named \in {FillNames(c.heap[c.ref])} :
         \E out \in {reset_index(drop_duplicates(named, {"id", "name"}, "first"))} :
           /\ heap' = Append([c.heap EXCEPT ![c.ref] = named], out)
           /\ df_final' = out
  /\ pc' = "final"
  /\ UNCHANGED <<series, result, selected, pandas2, df, subset, dup_mask, df_no_dup,
                 stages, ix, outs, diags>>

NextPipe ==
  \/ PipeConvert
  \/ PipeFilter
  \/ FinalCleanup

SpecPipe == InitPipe /\ [][NextPipe]_vars

PipeStates == {"run", "raised", "final"}

\* The stages that have completed, and those of them that convert.
Completed == 1..Len(outs)

ConvertStages == {i \in Completed : stages[i].fn = "convert_types_and_report"}

\* C1: whatever stages are piped over the caller's table, and whatever they
\* do to their working copies, the object the caller's variable names keeps
\* the rows, the columns and the cell values it had before the run.
C1_OriginalUnchanged == pc \in PipeStates => heap[1] = df

\* C1 witness: the script's own run (convert, then filter at 85, then the
\* final cleanup) has finished, the first stage changed cells of its copy,
\* the second dropped rows, and the original is as it was.
C1_Witness ==
  /\ pc = "final"
  /\ stages = <<Convert, Filter85>>
  /\ heap[outs[1]].rows # df.rows
  /\ Len(heap[outs[2]].rows) < Len(df.rows)
  /\ heap[1] = df

\* C2 as stated: when stage 2 of three raises, exactly one diagnostics
\* record (stage 1's) has been emitted, the error has ended the run and
\* stage 3 has not executed.
C2_OneRecordOnError ==
  (pc = "raised" /\ Len(stages) = 3 /\ ix = 1) =>
    /\ Len(diags) = 1
    /\ Len(outs) = 1
    /\ df_final = <<>>

\* C2, amended: when stage 2 of three raises KeyError for an absent column,
\* the error ends the run, stage 3 and the final cleanup never execute, and
\* the diagnostics emitted are exactly those of stage 1, which is none:
\* stage 1 is then filter_by_score_threshold, which prints no diagnostics.
C2_StopOnError ==
  (pc = "raised" /\ Len(stages) = 3 /\ ix = 1) =>
    /\ stages[1].fn = "filter_by_score_threshold"
    /\ diags = <<>>
    /\ Len(outs) = 1
    /\ df_final = <<>>
    /\ ~ENABLED NextPipe

\* C2 witness: stage 2 (a convert over a table without an age column) has
\* raised after stage 1 (a filter) completed.
C2_Witness ==
  /\ pc = "raised" /\ Len(stages) = 3 /\ ix = 1
  /\ stages[2] = Convert
  /\ "age" \notin df.columns
  /\ Len(outs) = 1

\* C8 as stated: one diagnostics record per executed stage, in stage order,
\* each computed from that stage's output table.
C8_OneRecordPerStage ==
  pc \in PipeStates =>
    /\ Len(diags) = Len(outs)
    /\ \A i \in Completed : diags[i] = Diagnostics(heap[outs[i]])

\* C8, amended: one diagnostics record (per-column dtype and per-column
\* missing count) for each convert_types_and_report stage that completed,
\* in stage order, each equal to the diagnostics of that stage's own output
\* table; filter_by_score_threshold emits none.
C8_RecordPerConvert ==
  pc \in PipeStates =>
    /\ Len(diags) = Cardinality(ConvertStages)
    /\ \A i \in ConvertStages :
         diags[Cardinality({j \in ConvertStages : j <= i})] = Diagnostics(heap[outs[i]])

\* C8 witness: convert, filter, convert have run; two records were emitted,
\* one per convert, and they differ as the two outputs do.
C8_Witness ==
  /\ pc = "final"
  /\ stages = <<Convert, Filter85, Convert>>
  /\ Len(diags) = 2
  /\ diags[1] # diags[2]
  /\ diags[1].nulls["age"] > 0

\* A text cell with nothing but blanks in it.
IsBlankText(c) == c.k = "str" /\ \A i \in 1..Len(c.s) : IsSpace(c.s[i])

\* The name the final table is expected to carry for a name cell.
ExpectedName(c) == IF IsNa(c) \/ IsBlankText(c) THEN Str(TUnknown) ELSE c

\* The table the final cleanup was handed: the last stage's output.
PipelineOutput == heap[outs[Len(outs)]]

\* Rows i and j of the pipeline output carry the same (id, filled name).
SamePair(i, j) ==
  /\ Matches(PipelineOutput.rows[i].cells["id"], PipelineOutput.rows[j].cells["id"])
  /\ ExpectedName(PipelineOutput.rows[i].cells["name"])
       = ExpectedName(PipelineOutput.rows[j].cells["name"])

\* The rows of the pipeline output that are the first with their pair.
FirstOccurrences ==
  {i \in 1..Len(PipelineOutput.rows) : \A j \in 1..(i - 1) : ~SamePair(j, i)}

\* The k-th of them, in order.
KthFirst(k) ==
  CHOOSE i \in FirstOccurrences : Cardinality({j \in FirstOccurrences : j < i}) = k - 1

\* C10: the table the final step saves has no missing or blank name, no two
\* rows with the same (id, name), and is exactly the first occurrence of
\* each (id, filled name) pair of the pipeline output, in the original
\* order, labelled 0 .. n-1.
C10_FinalCleanup ==
  pc = "final" =>
    /\ \A k \in 1..Len(df_final.rows) :
         /\ ~IsNa(df_final.rows[k].cells["name"])
         /\ ~IsBlankText(df_final.rows[k].cells["name"])
    /\ \A a, b \in 1..Len(df_final.rows) :
         a # b => ~(/\ Matches(df_final.rows[a].cells["id"], df_final.rows[b].cells["id"])
                    /\ Matches(df_final.rows[a].cells["name"], df_final.rows[b].cells["name"]))
    /\ Len(df_final.rows) = Cardinality(FirstOccurrences)
    /\ \A k \in 1..Len(df_final.rows) :
         /\ df_final.rows[k].label = k - 1
         /\ df_final.rows[k].cells =
              [PipelineOutput.rows[KthFirst(k)].cells EXCEPT
                 !["name"] = ExpectedName(PipelineOutput.rows[KthFirst(k)].cells["name"])]

\* C10 witness: the cleanup ran over an output whose labels no longer start
\* at 0 (a filter dropped the first row), holding a missing and a blank name
\* with the same id, and left fewer rows than it was handed.
C10_Witness ==
  /\ pc = "final"
  /\ Len(df_final.rows) < Len(PipelineOutput.rows)
  /\ PipelineOutput.rows[1].label # 0
  /\ \E i \in 1..Len(PipelineOutput.rows) : IsNa(PipelineOutput.rows[i].cells["name"])
  /\ \E i \in 1..Len(PipelineOutput.rows) : IsBlankText(PipelineOutput.rows[i].cells["name"])

====
